---- MODULE Spec2Model ----
(***************************************************************************)
(* A model of whammy.js: the EBML size descriptor of generateEBML, the      *)
(* WebM muxer toWebM (validateFrames, cluster partitioning, cue table,     *)
(* two-pass layout) and the WhammyVideo facade (add, encodeFrames,         *)
(* compile).                                                               *)
(*                                                                         *)
(* Byte counts are kept as two-limb numerals [hi, lo] in base 2^24 (Num)   *)
(* because the byte position of a cluster can pass 2^31, where             *)
(* JavaScript's 32-bit bitwise operators and the model checker's integers  *)
(* both stop being exact.  Long frame payloads are kept as a literal head  *)
(* followed by a counted run of zero bytes.                                *)
(***************************************************************************)
EXTENDS Integers, Sequences, FiniteSets, TLC

VARIABLES
    \* generateEBML's size descriptor, applied to one content length
    vlen,            \* the content length (Num)
    vpc,             \* "in" | "out" | "threw"
    vbuf,            \* the descriptor's bytes
    \* one call of toWebM
    pc,              \* "idle" | "call" | "cluster" | "layout" | "final" | "done" | "thrown"
    frames,          \* the argument: a sequence of parsed frames
    segment,         \* segment.data: element trees, replaced by rendered buffers
    frameNumber,
    clusterTimecode,
    clusters,        \* per cluster built: the indexes of the frames put into it
    position,        \* Num
    i,               \* the layout loop's index (0-based, as in the source)
    output,          \* what the final generateEBML call returned
    \* a WhammyVideo
    video,           \* [frames, duration]
    cpc,             \* "ready" | "encoding" | "returned" | "threw"
    timer,           \* the pending setTimeout: -1 or the index to encode
    calls,           \* the arguments the compile callback was invoked with, in order
    adds             \* the arguments of the add calls made so far, in order

vars == <<vlen, vpc, vbuf, pc, frames, segment, frameNumber, clusterTimecode,
          clusters, position, i, output, video, cpc, timer, calls, adds>>

vintVars == <<vlen, vpc, vbuf>>
muxVars == <<pc, frames, segment, frameNumber, clusterTimecode, clusters,
             position, i, output>>
videoVars == <<video, cpc, timer, calls, adds>>

-----------------------------------------------------------------------------
(* Bounds *)

MaxVintLen == 300      \* every content length 0..MaxVintLen is tried
MaxFrames == 4         \* longest frame list handed to toWebM
MaxAdds == 3           \* add calls on one WhammyVideo
BigFill == 1073741000  \* zero bytes that follow the head of the long payload

-----------------------------------------------------------------------------
(* Program constants *)

CLUSTER_MAX_DURATION == 30000
TIMECODE_SCALE == 1000000
MAX_DURATION == 32767                        \* 0x7fff
CUE_POSITION_SIZE == 8

EBML_IDS ==
    [EBML |-> 440786851, Segment |-> 408125543, Info |-> 357149030,
     Tracks |-> 374648427, TrackEntry |-> 174, Cluster |-> 524531317,
     Cues |-> 475249515, CuePoint |-> 187, CueTrackPositions |-> 183,
     SimpleBlock |-> 163]

-----------------------------------------------------------------------------
(* Sequences of bits and bytes *)

Zeros(n) == [k \in 1..n |-> 0]

Reverse(s) == [k \in 1..Len(s) |-> s[Len(s) + 1 - k]]

RECURSIVE StripZeros(_)
StripZeros(s) ==
    IF Len(s) > 1 /\ s[1] = 0 THEN StripZeros(Tail(s)) ELSE s

\* n.toString(2) for an integer n >= 0, most significant bit first
RECURSIVE toString2(_)
toString2(n) ==
    IF n < 2 THEN <<n>> ELSE toString2(n \div 2) \o <<n % 2>>

\* parseInt(bits, 2)
RECURSIVE parseInt2(_)
parseInt2(bits) ==
    IF bits = <<>> THEN 0
    ELSE 2 * parseInt2(SubSeq(bits, 1, Len(bits) - 1)) + bits[Len(bits)]

(* Num: a byte count, kept as two digits in base 2^24 (value = hi * 2^24 + lo) *)

N(n) == [hi |-> n \div 16777216, lo |-> n % 16777216]

NAdd(a, b) ==
    [hi |-> a.hi + b.hi + ((a.lo + b.lo) \div 16777216),
     lo |-> (a.lo + b.lo) % 16777216]

\* the sum of s[from..to], by halves to keep the evaluation shallow
RECURSIVE NSumRange(_, _, _)
NSumRange(s, from, to) ==
    IF from > to THEN N(0)
    ELSE IF from = to THEN s[from]
    ELSE NAdd(NSumRange(s, from, (from + to) \div 2),
              NSumRange(s, ((from + to) \div 2) + 1, to))

NSum(s) == NSumRange(s, 1, Len(s))

\* byte j (0 = least significant) of a Num
NByte(a, j) ==
    CASE j = 0 -> a.lo % 256
      [] j = 1 -> (a.lo \div 256) % 256
      [] j = 2 -> a.lo \div 65536
      [] j = 3 -> a.hi % 256
      [] j = 4 -> (a.hi \div 256) % 256
      [] j = 5 -> (a.hi \div 65536) % 256
      [] j = 6 -> a.hi \div 16777216
      [] OTHER -> 0

\* len.toString(2) for a Num
NtoString2(a) ==
    IF a.hi = 0 THEN toString2(a.lo)
    ELSE toString2(a.hi) \o Zeros(24 - Len(toString2(a.lo))) \o toString2(a.lo)

RECURSIVE BitsOfBytes(_)
BitsOfBytes(bytes) ==
    IF bytes = <<>> THEN <<>>
    ELSE (Zeros(8 - Len(toString2(bytes[1]))) \o toString2(bytes[1]))
         \o BitsOfBytes(Tail(bytes))

Ones(bits) == Cardinality({k \in 1..Len(bits) : bits[k] = 1})

\* Math.ceil(Math.log(len) / Math.log(2)) for len >= 1.  The floating-point
\* quotient is exact at 2^8, 2^16, ..., the only lengths at which rounding
\* could change Math.ceil(x / 8).
ceilLog2(a) ==
    LET b == NtoString2(a)
    IN  IF Ones(b) = 1 THEN Len(b) - 1 ELSE Len(b)

-----------------------------------------------------------------------------
(* NumericCodec: numToBuffer, numToFixedBuffer, bitsToBuffer *)

RECURSIVE numToBuffer(_)
numToBuffer(num) ==
    IF num > 0 THEN numToBuffer(num \div 256) \o <<num % 256>> ELSE <<>>

\* ToInt32 of a Num, as the four bytes of its two's complement, low byte first
ToInt32(a) == <<NByte(a, 0), NByte(a, 1), NByte(a, 2), NByte(a, 3)>>

\* x >> 8 on an int32: sign-propagating
Sar8(x) == <<x[2], x[3], x[4], IF x[4] >= 128 THEN 255 ELSE 0>>

RECURSIVE fixedParts(_, _)
fixedParts(x, size) ==
    IF size = 0 THEN <<>> ELSE fixedParts(Sar8(x), size - 1) \o <<x[1]>>

numToFixedBuffer(num, size) == fixedParts(ToInt32(num), size)

bitsToBuffer(bits) ==
    LET pad == IF Len(bits) % 8 # 0 THEN Zeros(8 - (Len(bits) % 8)) ELSE <<>>
        paddedBits == pad \o bits
    IN  [k \in 1..(Len(paddedBits) \div 8) |->
            parseInt2(SubSeq(paddedBits, 8 * (k - 1) + 1, 8 * k))]

-----------------------------------------------------------------------------
(* generateEBML: the size descriptor of an element whose content is len bytes *)

zeroes(len) == (ceilLog2(len) + 7) \div 8

sizeStr(len) == NtoString2(len)

padCount(len) == (zeroes(len) * 7 + 7 + 1) - Len(sizeStr(len))

\* Math.log(0) is -Infinity and '0'.repeat of a negative count throws RangeError
sizeThrows(len) == len = N(0) \/ padCount(len) < 0

padded(len) == Zeros(padCount(len)) \o sizeStr(len)

size(len) == Zeros(zeroes(len)) \o <<1>> \o padded(len)

sizeBuffer(len) == bitsToBuffer(size(len))

-----------------------------------------------------------------------------
(* Strings of bytes: a literal head followed by fill zero bytes *)

KEYFRAME_MARKER == <<157, 1, 42>>            \* '\x9d\x01\x2a'

length(str) == Len(str.head) + str.fill

\* str.indexOf('\x9d\x01\x2a'): 0-based, -1 when absent.  The fill is all
\* zero and cannot hold or complete the marker.
indexOf(str) ==
    LET at == {k \in 0..(Len(str.head) - 3) :
                  SubSeq(str.head, k + 1, k + 3) = KEYFRAME_MARKER}
    IN  IF at = {} THEN -1 ELSE CHOOSE k \in at : \A j \in at : k <= j

\* str.charCodeAt(k) as the bitwise operators see it: NaN (past the end)
\* converts to 0
charCodeAt(str, k) == IF k < Len(str.head) THEN str.head[k + 1] ELSE 0

\* str.slice(start).length
sliceLength(str, start) ==
    LET from == IF start < 0
                THEN (IF length(str) + start > 0 THEN length(str) + start ELSE 0)
                ELSE (IF start < length(str) THEN start ELSE length(str))
    IN  length(str) - from

-----------------------------------------------------------------------------
(* FrameDecoder *)

parseWebP(VP8) ==
    LET frameStart == indexOf(VP8)
        bytes == [n \in 0..3 |-> charCodeAt(VP8, frameStart + 3 + n)]
        tmp1 == bytes[1] * 256 + bytes[0]
        tmp2 == bytes[3] * 256 + bytes[2]
    IN  [width |-> tmp1 % 16384,
         height |-> tmp2 % 16384,
         data |-> VP8,
         horizontalScale |-> tmp1 \div 16384,
         verticalScale |-> tmp2 \div 16384]

\* webp.duration = ...: the parsed frame with its display duration
withDuration(webp, duration) ==
    [width |-> webp.width, height |-> webp.height, data |-> webp.data,
     duration |-> duration]

-----------------------------------------------------------------------------
(* validateFrames *)

\* a validation without the height comparison: C5_RejectedBeforeBuilding
\* tells it from frameError
frameErrorNoHeight(fs, k) ==
    IF fs[k].width # fs[1].width THEN "inconsistent width"
    ELSE IF fs[k].duration < 0 \/ fs[k].duration > MAX_DURATION
         THEN "invalid duration"
    ELSE "none"

\* the checks of one loop iteration, in the order the loop makes them
frameError(fs, k) ==
    IF fs[k].width # fs[1].width THEN "inconsistent width"
    ELSE IF fs[k].height # fs[1].height THEN "inconsistent height"
    ELSE IF fs[k].duration < 0 \/ fs[k].duration > MAX_DURATION
         THEN "invalid duration"
    ELSE "none"

RECURSIVE sumDurations(_)
sumDurations(fs) ==
    IF fs = <<>> THEN 0 ELSE fs[1].duration + sumDurations(Tail(fs))

\* the loop starts at the second frame (i = 1 in the source)
validateFrames(fs) ==
    IF Len(fs) = 0 THEN [error |-> "No frames provided"]
    ELSE LET bad == {k \in 2..Len(fs) : frameError(fs, k) # "none"}
         IN  IF bad # {}
             THEN [error |-> frameError(fs, CHOOSE k \in bad : \A j \in bad : k <= j)]
             ELSE [error |-> "none", duration |-> sumDurations(fs),
                   width |-> fs[1].width, height |-> fs[1].height]

-----------------------------------------------------------------------------
(* Element trees.  An element is [id, size, data]; data is a number, a     *)
(* string, a list of elements, or, with id 0 (no id), an already rendered  *)
(* buffer.                                                                 *)

number(v) == [t |-> "number", v |-> v]
string(len) == [t |-> "string", len |-> len]
object(kids) == [t |-> "object", kids |-> kids]

El(id, data) == [id |-> id, size |-> 0, data |-> data]
Sized(id, data, sz) == [id |-> id, size |-> sz, data |-> data]
Rendered(len) == [id |-> 0, size |-> 0, data |-> [t |-> "buffer", len |-> len]]

\* generateEBML(json), kept by the byte length of what it returns (a Num).
\* No element toWebM builds has empty content, so lines 165-167 do not throw.
RECURSIVE generateEBML(_)

\* lines 142-172: what one pass of the loop pushes for json[i]
elementBytes(element) ==
    LET data == element.data
        len == CASE data.t = "buffer" -> data.len
                 [] data.t = "object" -> generateEBML(data.kids)
                 [] data.t = "number" ->
                       IF element.size # 0
                       THEN N(Len(numToFixedBuffer(data.v, element.size)))
                       ELSE N(Len(bitsToBuffer(toString2(data.v))))
                 [] data.t = "string" -> N(data.len)
    IN  IF element.id = 0 THEN len
        ELSE NAdd(len, N(Len(numToBuffer(element.id)) + Len(sizeBuffer(len))))

generateEBML(json) == NSum([k \in 1..Len(json) |-> elementBytes(json[k])])

-----------------------------------------------------------------------------
(* BlockPacker *)

\* String.fromCharCode(byte): the code modulo 2^16
fromCharCode(byte) == byte % 65536

makeSimpleBlockThrows(trackNum) == trackNum > 127

\* the block string: its four header characters and its length
makeSimpleBlock(trackNum, timecode, keyframe, invisible, lacing, discardable, frameLen) ==
    LET flags == (IF keyframe # 0 THEN 128 ELSE 0) + (IF invisible # 0 THEN 8 ELSE 0)
                 + (IF lacing # 0 THEN lacing * 2 ELSE 0)
                 + (IF discardable # 0 THEN 1 ELSE 0)
        header == <<fromCharCode(128 + trackNum), fromCharCode(timecode \div 256),
                    fromCharCode(timecode % 256), fromCharCode(flags)>>
    IN  [t |-> "string", header |-> header, len |-> Len(header) + frameLen]

\* strToBuffer on the header characters: a Uint8Array keeps each code modulo 256
strToBuffer(chars) == [k \in 1..Len(chars) |-> chars[k] % 256]

-----------------------------------------------------------------------------
(* Element builders *)

createEBMLHeader ==
    El(EBML_IDS.EBML, object(<<
        El(17030, number(1)),            \* 0x4286 EBMLVersion
        El(17143, number(1)),            \* 0x42f7 EBMLReadVersion
        El(17138, number(4)),            \* 0x42f2 EBMLMaxIDLength
        El(17139, number(8)),            \* 0x42f3 EBMLMaxSizeLength
        El(17026, string(4)),            \* 0x4282 DocType 'webm'
        El(17031, number(2)),            \* 0x4287 DocTypeVersion
        El(17029, number(2)) >>))        \* 0x4285 DocTypeReadVersion

\* doubleToString(duration) is 8 characters whatever the duration
createSegmentInfo(duration) ==
    El(EBML_IDS.Info, object(<<
        El(2807729, number(TIMECODE_SCALE)),   \* 0x2ad7b1 TimecodeScale
        El(19840, string(6)),                  \* 0x4d80 MuxingApp 'whammy'
        El(22337, string(6)),                  \* 0x5741 WritingApp 'whammy'
        El(17545, string(8)) >>))              \* 0x4489 Duration

createTracks(width, height) ==
    El(EBML_IDS.Tracks, object(<<
        El(EBML_IDS.TrackEntry, object(<<
            El(215, number(1)),                \* 0xd7 TrackNumber
            El(29637, number(1)),              \* 0x73c5 TrackUID
            El(156, number(0)),                \* 0x9c FlagLacing
            El(2274716, string(3)),            \* 0x22b59c Language 'und'
            El(134, string(5)),                \* 0x86 CodecID 'V_VP8'
            El(2459272, string(3)),            \* 0x258688 CodecName 'VP8'
            El(131, number(1)),                \* 0x83 TrackType
            El(224, object(<<                  \* 0xe0 Video
                El(176, number(width)),        \* 0xb0 PixelWidth
                El(186, number(height)) >>)) >>)) >>))

\* lines 350-362; Math.round leaves the integer timecode as it is
cuePoint(timecode) ==
    El(EBML_IDS.CuePoint, object(<<
        El(179, number(timecode)),                           \* 0xb3 CueTime
        El(EBML_IDS.CueTrackPositions, object(<<
            El(247, number(1)),                              \* 0xf7 CueTrack
            Sized(241, number(N(0)), CUE_POSITION_SIZE) >>)) >>))  \* 0xf1

-----------------------------------------------------------------------------
(* The three machines share the module's variables; each specification     *)
(* leaves the other machines' variables at these values.                    *)

VintIdle == vlen = N(0) /\ vpc = "idle" /\ vbuf = <<>>

MuxIdle ==
    /\ pc = "idle" /\ frames = <<>> /\ segment = <<>> /\ frameNumber = 0
    /\ clusterTimecode = 0 /\ clusters = <<>> /\ position = N(0) /\ i = 0
    /\ output = [kind |-> "none"]

VideoIdle ==
    /\ video = [frames |-> <<>>, duration |-> [t |-> "null"]]
    /\ cpc = "idle" /\ timer = -1 /\ calls = <<>> /\ adds = <<>>

-----------------------------------------------------------------------------
(* SpecVint: generateEBML's size computation on one content length *)

VintLengths ==
    (0..MaxVintLen) \cup {16383, 16384, 16385, 65535, 65536, 65537,
                          2097151, 2097152, 16777215, 16777216, 16777217,
                          268435455, 268435456}

InitVint ==
    /\ vlen \in {N(n) : n \in VintLengths}
    /\ vpc = "in"
    /\ vbuf = <<>>
    /\ MuxIdle /\ VideoIdle

\* lines 164-171: the descriptor is computed and pushed
EmitSize ==
    /\ vpc = "in"
    /\ ~sizeThrows(vlen)
    /\ vbuf' = sizeBuffer(vlen)
    /\ vpc' = "out"
    /\ UNCHANGED <<vlen, muxVars, videoVars>>

\* lines 165-167: '0'.repeat throws RangeError, nothing is pushed
EmitSizeThrows ==
    /\ vpc = "in"
    /\ sizeThrows(vlen)
    /\ vpc' = "threw"
    /\ UNCHANGED <<vlen, vbuf, muxVars, videoVars>>

NextVint == EmitSize \/ EmitSizeThrows

SpecVint == InitVint /\ [][NextVint]_vars

(* A reference reader of EBML variable-length integers *)

RECURSIVE LeadingZeros(_)
LeadingZeros(bits) ==
    IF bits = <<>> \/ bits[1] = 1 THEN 0 ELSE 1 + LeadingZeros(Tail(bits))

\* the value of big-endian bytes (below 2^55), as a Num
NumOfBE(bytes) ==
    LET byte(j) == IF j < Len(bytes) THEN bytes[Len(bytes) - j] ELSE 0
    IN  [hi |-> byte(3) + 256 * byte(4) + 65536 * byte(5) + 16777216 * byte(6),
         lo |-> byte(0) + 256 * byte(1) + 65536 * byte(2)]

\* the size bytes that hold a Num, most significant first
BigEndian(a, sz) == [k \in 1..sz |-> NByte(a, sz - k)]

\* well formed: the unary run of zero bits before the marker bit is one
\* shorter than the descriptor is long
VintWellFormed(bytes) ==
    LET bits == BitsOfBytes(bytes)
    IN  /\ bytes # <<>>
        /\ LeadingZeros(bits) < Len(bits)
        /\ Len(bytes) = LeadingZeros(bits) + 1

VintDecode(bytes) ==
    LET bits == BitsOfBytes(bytes)
        z == LeadingZeros(bits)
    IN  NumOfBE(bitsToBuffer(SubSeq(bits, z + 2, Len(bits))))

\* the least byte count n whose 7n value bits hold len
MinVintBytes(len) == (Len(NtoString2(len)) + 6) \div 7

\* C2: for every content length, the size descriptor generateEBML emits is a
\* well-formed EBML VINT (leading zero bits = byte count - 1) of the minimal
\* byte count that holds the length, and a reference decoder reads the
\* length back; no length, 0 included, is refused.
C2_SizeIsMinimalVint ==
    /\ vpc # "threw"
    /\ vpc = "out" =>
          /\ VintWellFormed(vbuf)
          /\ Len(vbuf) = MinVintBytes(vlen)
          /\ VintDecode(vbuf) = vlen

\* what the code emits for every length it does not refuse: zeroes + 2 bytes
\* that open with zeroes + 7 zero bits
EmittedSizeShape ==
    vpc = "out" =>
        /\ Len(vbuf) = zeroes(vlen) + 2
        /\ LeadingZeros(BitsOfBytes(vbuf)) = zeroes(vlen) + 7

-----------------------------------------------------------------------------
(* Spec: one call of toWebM *)

\* the VP8 chunk of a 64x64 image as parseRIFF hands it over: the chunk size,
\* the 3-byte frame tag, the keyframe marker, width and height words
VP8_64x64 == [head |-> <<30, 0, 0, 0, 16, 2, 0, 157, 1, 42, 64, 0, 64, 0, 7, 7>>,
              fill |-> 0]
\* the same header followed by a long run of data
VP8_64x64_long == [head |-> VP8_64x64.head, fill |-> BigFill]
\* a 64x32 image
VP8_64x32 == [head |-> <<30, 0, 0, 0, 16, 2, 0, 157, 1, 42, 64, 0, 32, 0, 7, 7>>,
              fill |-> 0]
\* a chunk without the keyframe marker whose bytes 2..5 read as 64x64
VP8_unmarked == [head |-> <<30, 0, 64, 0, 64, 0, 0, 157, 1, 7, 7, 7>>, fill |-> 0]

FrameChoices ==
    { <<VP8_64x64, 10000>>, <<VP8_64x64, 29999>>, <<VP8_64x64_long, 30000>>,
      <<VP8_64x32, 10000>>, <<VP8_unmarked, 10000>>, <<VP8_64x64, 40000>>,
      <<VP8_64x64, -5>> }

SeqsUpTo(S, n) == UNION {[1..k -> S] : k \in 0..n}

\* frames as fromImageArray and compile make them: parseWebP of the payload,
\* then the duration
Inputs ==
    {[k \in 1..Len(c) |-> withDuration(parseWebP(c[k][1]), c[k][2])] :
        c \in SeqsUpTo(FrameChoices, MaxFrames)}

Init ==
    /\ frames \in Inputs
    /\ pc = "call"
    /\ segment = <<>> /\ frameNumber = 0 /\ clusterTimecode = 0
    /\ clusters = <<>> /\ position = N(0) /\ i = 0
    /\ output = [kind |-> "none"]
    /\ VintIdle /\ VideoIdle

\* lines 333-346: validateFrames returned
ValidateOk ==
    /\ pc = "call"
    /\ validateFrames(frames).error = "none"
    /\ LET info == validateFrames(frames)
       IN  segment' = << createSegmentInfo(info.duration),
                         createTracks(info.width, info.height),
                         El(EBML_IDS.Cues, object(<<>>)) >>
    /\ frameNumber' = 0
    /\ clusterTimecode' = 0
    /\ pc' = "cluster"
    /\ UNCHANGED <<frames, clusters, position, i, output, vintVars, videoVars>>

\* line 333: validateFrames threw; toWebM is left by the exception
ValidateThrows ==
    /\ pc = "call"
    /\ validateFrames(frames).error # "none"
    /\ output' = [kind |-> "error", error |-> validateFrames(frames).error]
    /\ pc' = "thrown"
    /\ UNCHANGED <<frames, segment, frameNumber, clusterTimecode, clusters,
                   position, i, vintVars, videoVars>>

\* a collecting loop that goes on while the duration is at most the maximum:
\* C3_ClusterPartition tells it from collect
RECURSIVE collectLoose(_, _, _)
collectLoose(fs, fn, clusterDuration) ==
    LET d == clusterDuration + fs[fn + 1].duration
    IN  IF fn + 1 < Len(fs) /\ d <= CLUSTER_MAX_DURATION
        THEN collectLoose(fs, fn + 1, d)
        ELSE [frameNumber |-> fn + 1, clusterDuration |-> d]

\* lines 370-374: the do-while that collects one cluster's frames, from the
\* 0-based frameNumber; returns the loop's variables at its exit
RECURSIVE collect(_, _, _)
collect(fs, fn, clusterDuration) ==
    LET d == clusterDuration + fs[fn + 1].duration
    IN  IF fn + 1 < Len(fs) /\ d < CLUSTER_MAX_DURATION
        THEN collect(fs, fn + 1, d)
        ELSE [frameNumber |-> fn + 1, clusterDuration |-> d]

\* lines 383-395: the SimpleBlock elements of clusterFrames
RECURSIVE simpleBlocks(_, _)
simpleBlocks(clusterFrames, clusterCounter) ==
    IF clusterFrames = <<>> THEN <<>>
    ELSE LET webp == clusterFrames[1]
             block == makeSimpleBlock(1, clusterCounter, 1, 0, 0, 0,
                          sliceLength(webp.data, indexOf(webp.data) - 3))
         IN  <<El(EBML_IDS.SimpleBlock, block)>>
             \o simpleBlocks(Tail(clusterFrames), clusterCounter + webp.duration)

\* lines 378-397
cluster(timecode, clusterFrames) ==
    El(EBML_IDS.Cluster, object(<<El(231, number(timecode))>>     \* 0xe7 Timecode
                                \o simpleBlocks(clusterFrames, 0)))

\* line 364: cues.data.push(cuePoint)
pushCue(seg, cue) ==
    [seg EXCEPT ![3].data.kids = Append(@, cue)]

\* a timecode that restarts at every cluster: C8_CuePerCluster tells it from
\* nextClusterTimecode
nextClusterTimecodeReset(timecode, clusterDuration) == clusterDuration

\* line 400
nextClusterTimecode(timecode, clusterDuration) == timecode + clusterDuration

\* lines 349-401: one iteration of the cluster loop
BuildCluster ==
    /\ pc = "cluster"
    /\ frameNumber < Len(frames)
    /\ LET c == collect(frames, frameNumber, 0)
           clusterFrames == SubSeq(frames, frameNumber + 1, c.frameNumber)
           el == cluster(clusterTimecode, clusterFrames)
       IN  /\ segment' = Append(pushCue(segment, cuePoint(clusterTimecode)), el)
           /\ clusters' = Append(clusters, [element |-> el,
                                            first |-> frameNumber + 1,
                                            last |-> c.frameNumber])
           /\ clusterTimecode' = nextClusterTimecode(clusterTimecode, c.clusterDuration)
           /\ frameNumber' = c.frameNumber
           /\ pc' = IF c.frameNumber < Len(frames) THEN "cluster" ELSE "layout"
    /\ position' = N(0)
    /\ i' = 0
    /\ UNCHANGED <<frames, output, vintVars, videoVars>>

\* line 407: cues.data[n].data[1].data[1].data = pos (n 0-based)
setCuePosition(seg, n, pos) ==
    [seg EXCEPT ![3].data.kids[n + 1].data.kids[2].data.kids[2].data.v = pos]

\* lines 405-414: one iteration of the layout loop
LayoutStep ==
    /\ pc = "layout"
    /\ i < Len(segment)
    /\ LET seg == IF i >= 3 THEN setCuePosition(segment, i - 3, position)
                  ELSE segment
           data == generateEBML(<<seg[i + 1]>>)
       IN  /\ position' = NAdd(position, data)
           /\ segment' = IF i # 2 THEN [seg EXCEPT ![i + 1] = Rendered(data)]
                         ELSE seg
    /\ i' = i + 1
    /\ pc' = IF i + 1 < Len(segment) THEN "layout" ELSE "final"
    /\ UNCHANGED <<frames, frameNumber, clusterTimecode, clusters, output,
                   vintVars, videoVars>>

\* the CueClusterPosition bytes of CuePoint n (1-based) as generateEBML
\* renders them
cuePositionBytes(seg, n) ==
    LET el == seg[3].data.kids[n].data.kids[2].data.kids[2]
    IN  numToFixedBuffer(el.data.v, el.size)

\* line 416: the final render.  The document is kept by its length, the
\* length of each Segment child in it, and the CueClusterPosition bytes.
FinalRender ==
    /\ pc = "final"
    /\ output' =
          [kind |-> "webm",
           length |-> generateEBML(<<createEBMLHeader,
                                     El(EBML_IDS.Segment, object(segment))>>),
           children |-> [k \in 1..Len(segment) |-> generateEBML(<<segment[k]>>)],
           cuePositions |-> [n \in 1..Len(segment[3].data.kids) |->
                                cuePositionBytes(segment, n)]]
    /\ pc' = "done"
    /\ UNCHANGED <<frames, segment, frameNumber, clusterTimecode, clusters,
                   position, i, vintVars, videoVars>>

Next == ValidateOk \/ ValidateThrows \/ BuildCluster \/ LayoutStep \/ FinalRender

Spec == Init /\ [][Next]_vars

-----------------------------------------------------------------------------
(* Properties of toWebM *)

Built == pc \in {"layout", "final", "done"}

cues == segment[3].data.kids
CueTime(n) == cues[n].data.kids[1].data.v
ClusterTimecode(n) == clusters[n].element.data.kids[1].data.v
ClusterBlocks(n) == Tail(clusters[n].element.data.kids)
DurationOf(first, last) == sumDurations(SubSeq(frames, first, last))

InRange(d) == 0 <= d /\ d <= MAX_DURATION
Below2G(a) == a.hi < 128

\* the offset of Cluster n's first id byte from the first byte of the
\* Segment's data, measured on the final output
ClusterOffset(n) == NSum(SubSeq(output.children, 1, n + 2))

\* C1: in the final output the CueClusterPosition of CuePoint n equals the sum
\* of the serialized lengths of the Segment children before Cluster n (Info,
\* Tracks, Cues, Clusters 0..n-1): its 8 bytes are that sum, big-endian.
C1_CuePositionIsClusterOffset ==
    pc = "done" =>
        \A n \in 1..Len(clusters) :
            output.cuePositions[n] = BigEndian(ClusterOffset(n), CUE_POSITION_SIZE)

\* what does hold: the position is right for every cluster that starts below
\* 2^31 bytes
CuePositionExactBelow2G ==
    pc = "done" =>
        \A n \in 1..Len(clusters) :
            Below2G(ClusterOffset(n)) =>
                output.cuePositions[n] = BigEndian(ClusterOffset(n), CUE_POSITION_SIZE)

C1_Reached ==
    /\ pc = "done"
    /\ \E n \in 1..Len(clusters) : ~Below2G(ClusterOffset(n))

\* C3: the clusters are non-empty runs of consecutive frames that concatenate
\* to the frame list in order; no cluster reaches 30000 ms before its final
\* frame, and every cluster but the last reaches 30000 ms.
C3_ClusterPartition ==
    Built =>
        /\ Len(clusters) >= 1
        /\ clusters[1].first = 1
        /\ clusters[Len(clusters)].last = Len(frames)
        /\ \A n \in 1..Len(clusters) :
              /\ clusters[n].first <= clusters[n].last
              /\ n < Len(clusters) => clusters[n + 1].first = clusters[n].last + 1
              /\ Len(ClusterBlocks(n)) = clusters[n].last - clusters[n].first + 1
              /\ \A k \in clusters[n].first..(clusters[n].last - 1) :
                    DurationOf(clusters[n].first, k) < CLUSTER_MAX_DURATION
              /\ n < Len(clusters) =>
                    DurationOf(clusters[n].first, clusters[n].last)
                        >= CLUSTER_MAX_DURATION

\* the spec's example: durations 10000 x 4 give clusters [0..2] and [3]
C3_Reached ==
    /\ pc = "done"
    /\ [k \in 1..Len(frames) |-> frames[k].duration] = <<10000, 10000, 10000, 10000>>
    /\ [n \in 1..Len(clusters) |-> <<clusters[n].first, clusters[n].last>>]
           = << <<1, 3>>, <<4, 4>> >>

\* C4: toWebM throws whenever any frame, the first included, has a duration
\* outside [0, 32767].
C4_OutOfRangeDurationRejected ==
    (pc # "call" /\ \E k \in 1..Len(frames) : ~InRange(frames[k].duration))
        => (pc = "thrown" /\ output.kind = "error")

\* what does hold: a bad duration in any frame but the first is rejected
LaterDurationRejected ==
    (pc # "call" /\ \E k \in 2..Len(frames) : ~InRange(frames[k].duration))
        => (pc = "thrown" /\ output.kind = "error")

Mismatch ==
    \E k \in 1..Len(frames) :
        frames[k].width # frames[1].width \/ frames[k].height # frames[1].height

\* C5: on an empty frame list, or one with a frame whose width or height
\* differs from the first frame's, toWebM throws before any element is built
\* and returns no document.
C5_RejectedBeforeBuilding ==
    (frames = <<>> \/ Mismatch) =>
        /\ pc \in {"call", "thrown"}
        /\ segment = <<>> /\ clusters = <<>>
        /\ output.kind # "webm"
        /\ pc = "thrown" => output.kind = "error"

\* the spec's example: frame 2 differs in height from frame 0
C5_Reached ==
    /\ pc = "thrown"
    /\ Len(frames) >= 3
    /\ frames[2].height = frames[1].height
    /\ frames[3].height # frames[1].height
    /\ output = [kind |-> "error", error |-> "inconsistent height"]

Unmarked == \E k \in 1..Len(frames) : indexOf(frames[k].data) = -1

\* C6: a frame whose payload lacks the keyframe marker makes the muxing call
\* fail as a whole, without an output document.
C6_MissingMarkerFails ==
    (pc # "call" /\ Unmarked) => (pc = "thrown" /\ output.kind = "error")

\* the two timecode bytes of a block, as they stand in the rendered cluster
PackedTimecode(block) ==
    LET header == strToBuffer(block.data.header)
    IN  header[2] * 256 + header[3]

\* C7: the relative timecode packed into each SimpleBlock is the sum of the
\* durations of the frames before it in its cluster, and lies in [0, 32767].
C7_BlockTimecodes ==
    \A n \in 1..Len(clusters) :
        \A k \in 1..Len(ClusterBlocks(n)) :
            LET before == DurationOf(clusters[n].first, clusters[n].first + k - 2)
            IN  /\ PackedTimecode(ClusterBlocks(n)[k]) = before
                /\ InRange(before)

\* what does hold: the same, when the first frame's duration is in range too
BlockTimecodesOfValidFrames ==
    (\A k \in 1..Len(frames) : InRange(frames[k].duration)) => C7_BlockTimecodes

-----------------------------------------------------------------------------
(* SpecVideo: a WhammyVideo, its add calls and one compile call *)

\* JavaScript values that a duration can be
Undefined == [t |-> "undefined", v |-> 0]
Null == [t |-> "null", v |-> 0]
Number(n) == [t |-> "number", v |-> n]

\* !!x
truthy(x) == x.t = "number" /\ x.v # 0

\* a || b
or(a, b) == IF truthy(a) THEN a ELSE b

\* speeds tried by the constructor; 0 stands for a call without one.  They
\* divide 1000, so 1000 / speed is an integer.
Speeds == {0, 25}

\* the frame arguments of add: a canvas, an ImageData of a 64x64 picture, and
\* image/webp data URIs of a 64x64 and of a 64x32 picture.  data is the VP8
\* chunk inside the data URI, or the one toDataURL will produce.
FrameArgs ==
    { [kind |-> "canvas", data |-> VP8_64x64],
      [kind |-> "ImageData", data |-> VP8_64x64],
      [kind |-> "string", data |-> VP8_64x64],
      [kind |-> "string", data |-> VP8_64x32] }

DurationArgs == {Undefined, Number(0), Number(1000), Number(40000)}

\* lines 423-427
constructor(speed) ==
    [frames |-> <<>>,
     duration |-> IF speed # 0 THEN Number(1000 \div speed) ELSE Null]

InitVideo ==
    /\ video \in {constructor(speed) : speed \in Speeds}
    /\ cpc = "ready"
    /\ timer = -1
    /\ calls = <<>>
    /\ adds = <<>>
    /\ VintIdle /\ MuxIdle

\* lines 442-455: a canvas (or a context's canvas) is read into an ImageData;
\* the other checks are commented out
image(frame) ==
    IF frame.kind = "canvas" THEN [kind |-> "ImageData", data |-> frame.data]
    ELSE frame

\* lines 432-463
add(v, frame, duration) ==
    IF truthy(duration)
    THEN [v EXCEPT !.frames = Append(@, [image |-> image(frame),
                                         duration |-> or(duration, v.duration)])]
    ELSE v

Add ==
    /\ cpc \in {"ready", "encoding"}
    /\ Len(adds) < MaxAdds
    /\ \E frame \in FrameArgs, duration \in DurationArgs :
          /\ video' = add(video, frame, duration)
          /\ adds' = Append(adds, [frame |-> frame, duration |-> duration])
    /\ UNCHANGED <<cpc, timer, calls, vintVars, muxVars>>

\* lines 481-482: putImageData, then toDataURL('image/webp')
encodeFrame(v, index) ==
    [v EXCEPT !.frames[index + 1].image.kind = "string"]

\* line 502-503: the frames handed to toWebM
parsed(v) ==
    [k \in 1..Len(v.frames) |->
        withDuration(parseWebP(v.frames[k].image.data), v.frames[k].duration.v)]

\* lines 498-512: the callback invocations made once the frames are encoded.
\* frame.image.slice throws on an image that is no string; toWebM throws
\* what validateFrames throws; an exception thrown by callback(webm) is
\* caught too, and the callback is invoked again with it.
invocations(v, callbackThrows) ==
    IF \E k \in 1..Len(v.frames) : v.frames[k].image.kind # "string"
    THEN <<"error">>
    ELSE IF validateFrames(parsed(v)).error # "none" THEN <<"error">>
    ELSE IF callbackThrows THEN <<"webm", "error">>
    ELSE <<"webm">>

\* line 469: this.frames[0] is undefined on an empty list; compile throws
CompileThrows ==
    /\ cpc = "ready"
    /\ Len(video.frames) = 0
    /\ cpc' = "threw"
    /\ UNCHANGED <<video, timer, calls, adds, vintVars, muxVars>>

\* lines 469-472: the first image is no ImageData; the callback runs at once
CompileEncoded ==
    /\ cpc = "ready"
    /\ Len(video.frames) > 0
    /\ video.frames[1].image.kind # "ImageData"
    /\ \E callbackThrows \in BOOLEAN :
          calls' = calls \o invocations(video, callbackThrows)
    /\ cpc' = "done"
    /\ UNCHANGED <<video, timer, adds, vintVars, muxVars>>

\* lines 474-491: encodeFrame(0), then a timer for the next frame or the callback
CompileEncodes ==
    /\ cpc = "ready"
    /\ Len(video.frames) > 0
    /\ video.frames[1].image.kind = "ImageData"
    /\ video' = encodeFrame(video, 0)
    /\ IF 0 < Len(video.frames) - 1
       THEN timer' = 1 /\ cpc' = "encoding" /\ calls' = calls
       ELSE /\ timer' = -1 /\ cpc' = "done"
            /\ \E callbackThrows \in BOOLEAN :
                  calls' = calls \o invocations(encodeFrame(video, 0), callbackThrows)
    /\ UNCHANGED <<adds, vintVars, muxVars>>

\* lines 479-489, run by the timer: encodeFrame(index)
TimerEncodes ==
    /\ cpc = "encoding"
    /\ timer >= 0
    /\ video.frames[timer + 1].image.kind = "ImageData"
    /\ video' = encodeFrame(video, timer)
    /\ IF timer < Len(video.frames) - 1
       THEN timer' = timer + 1 /\ cpc' = "encoding" /\ calls' = calls
       ELSE /\ timer' = -1 /\ cpc' = "done"
            /\ \E callbackThrows \in BOOLEAN :
                  calls' = calls \o invocations(encodeFrame(video, timer), callbackThrows)
    /\ UNCHANGED <<adds, vintVars, muxVars>>

\* line 481, run by the timer: putImageData throws TypeError on an image that
\* is no ImageData; no timer is set and the callback is not invoked
TimerThrows ==
    /\ cpc = "encoding"
    /\ timer >= 0
    /\ video.frames[timer + 1].image.kind # "ImageData"
    /\ timer' = -1
    /\ cpc' = "dead"
    /\ UNCHANGED <<video, calls, adds, vintVars, muxVars>>

NextVideo ==
    Add \/ CompileThrows \/ CompileEncoded \/ CompileEncodes
        \/ TimerEncodes \/ TimerThrows

SpecVideo == InitVideo /\ [][NextVideo]_vars

CompileEnded == cpc \in {"done", "threw", "dead"}

\* C9: the callback of compile is never invoked twice, and once compile and
\* its timers have run to their end it has been invoked exactly once.
C9_CallbackExactlyOnce ==
    /\ Len(calls) <= 1
    /\ CompileEnded => Len(calls) = 1

\* what does hold: at most two invocations, and exactly one with the document
\* or the validation error when the callback does not throw and every frame
\* has been encoded
CallbackAtMostTwice ==
    /\ Len(calls) <= 2
    /\ cpc = "done" => Len(calls) >= 1
    /\ Len(calls) = 2 => calls = <<"webm", "error">>

\* C10: every add call appends exactly one entry, whose duration is the
\* duration argument when one is given and the constructor's default
\* otherwise.
C10_AddAppendsOne ==
    /\ Len(video.frames) = Len(adds)
    /\ \A k \in 1..Len(adds) :
          video.frames[k].duration =
              IF adds[k].duration.t # "undefined" THEN adds[k].duration
              ELSE video.duration

RECURSIVE kept(_)
kept(log) ==
    IF log = <<>> THEN <<>>
    ELSE (IF truthy(log[1].duration) THEN <<log[1]>> ELSE <<>>) \o kept(Tail(log))

\* what does hold: the list holds the calls made with a truthy duration, in
\* order, each with its own duration; every other call is dropped
OnlyTruthyAddsAppend ==
    /\ Len(video.frames) = Len(kept(adds))
    /\ \A k \in 1..Len(video.frames) :
          video.frames[k].duration = kept(adds)[k].duration

====
